---- MODULE Spec2Model ----
(***************************************************************************)
(* Contiguous frame pool (cont_frame_pool.C): a packed two-bit state map   *)
(* per pool, first-fit allocation of runs of frames, release by head frame *)
(* number through a process-wide registry of at most two pools.            *)
(***************************************************************************)
EXTENDS Integers, Sequences, FiniteSets, TLC

(* ------------------------------ bounds -------------------------------- *)

\* Frames 1..MaxFrame are the physical frames pools are built over
\* (frame 0 is never handed to a pool: 0 is the failure sentinel).
MaxFrame == 9

\* get_frames is called with n_req in 0..MaxReq.
MaxReq == 3

\* mark_inaccessible is called at most MaxMarks times.
MaxMarks == 1

\* needed_info_frames is called with n in 0..MaxInfoArg.
MaxInfoArg == 100

(* --------------------------- program constants ------------------------ *)

\* Bytes per frame (cont_frame_pool.H), scaled down so that pools of a few
\* frames need more than one metadata frame.
FRAME_SIZE == 2

\* Capacity of the registry: assert(pool_count < 2).
MAX_POOLS == 2

\* enum class FrameState (cont_frame_pool.H); zeroing the map must give Free.
Free == 0
Used == 1
HoS == 2

MSG_NOT_HOS == "Error: Frame is not Head-of-Sequence\n"
MSG_NO_POOL == "Error: Frame does not belong to any pool\n"
MSG_INIT == "Contiguous Frame Pool initialized\n"

VARIABLES
    pools,       \* ContFramePool::pools : slot -> pool object
    pool_count,  \* ContFramePool::pool_count
    halted,      \* the assertion in the constructor has failed
    live,        \* history: runs handed out by get_frames and not yet released
    last,        \* history: the last call, its arguments, result and pre-state
    rt,          \* history: progress of a get / release / get round trip
    marks,       \* history: the number of mark_inaccessible calls so far
    inaccessible \* history: the frame ranges given to mark_inaccessible

vars == <<pools, pool_count, halted, live, last, rt, marks, inaccessible>>

(* ------------------------- arithmetic helpers ------------------------- *)

Pow2(k) == 2 ^ k

\* x >> k and x << k on non-negative values that stay far below 2^64
Shr(x, k) == x \div Pow2(k)
Shl(x, k) == x * Pow2(k)

(* ------------------------------ the pool ------------------------------ *)

\* A pool object. bitmap is the byte array the bitmap pointer addresses
\* (bitmap_size bytes); orig_base and orig_count remember the constructor's
\* arguments (history, not fields of the class).
NullPool ==
    [base_frame_no |-> 0, n_frames |-> 0, info_frame_no |-> 0,
     bitmap_size |-> 0, bitmap |-> <<>>,
     orig_base |-> 0, orig_count |-> 0]

\* The usable range [base_frame_no, base_frame_no + n_frames) of a pool.
Usable(p) == p.base_frame_no .. (p.base_frame_no + p.n_frames - 1)

ByteIdx(p, frame_no) == Shr(Shl(frame_no - p.base_frame_no, 1), 3)
BitShift(p, frame_no) == Shl(frame_no - p.base_frame_no, 1) % 8

get_state(p, frame_no) ==
    LET byte_idx == ByteIdx(p, frame_no)
        shift == BitShift(p, frame_no)
        slot == p.bitmap[byte_idx + 1]
    IN  Shr(slot, shift) % 4

\* Variant: the slot's old bits are not cleared (slot | val).
set_state_NoClear(p, frame_no, state) ==
    LET byte_idx == ByteIdx(p, frame_no)
        shift == BitShift(p, frame_no)
        slot == p.bitmap[byte_idx + 1]
        old == Shr(slot, shift) % 4
        lo == IF old % 2 = 1 \/ state % 2 = 1 THEN 1 ELSE 0
        hi == IF old \div 2 = 1 \/ state \div 2 = 1 THEN 2 ELSE 0
    IN  [p EXCEPT !.bitmap[byte_idx + 1] =
                     (slot - old * Pow2(shift)) + (hi + lo) * Pow2(shift)]

set_state(p, frame_no, state) ==
    LET byte_idx == ByteIdx(p, frame_no)
        shift == BitShift(p, frame_no)
        slot == p.bitmap[byte_idx + 1]
        old == (Shr(slot, shift) % 4) * Pow2(shift)   \* slot & mask
        val == (Shl(state, shift)) % 256
    IN  [p EXCEPT !.bitmap[byte_idx + 1] = (slot - old) + val]

\* Variant: the byte count is divided without rounding up.
needed_info_frames_Floor(n) ==
    LET bits == Shl(n, 1)
        bytes == Shr(bits + 7, 3)
    IN  bytes \div FRAME_SIZE

needed_info_frames(n) ==
    LET bits == Shl(n, 1)
        bytes == Shr(bits + 7, 3)
    IN  (bytes + FRAME_SIZE - 1) \div FRAME_SIZE

(* ---------------------------- constructor ----------------------------- *)

\* for (i = 0; i < info_frames; ++i) set_state(base_frame_no + i, Used)
RECURSIVE MarkInfoFrames(_, _, _)
MarkInfoFrames(p, i, info_frames) ==
    IF i < info_frames
    THEN MarkInfoFrames(set_state(p, p.base_frame_no + i, Used), i + 1, info_frames)
    ELSE p

\* Variant: the usable base is left on the first metadata frame.
ShrinkBase_Kept(base, info_frames) == base

\* base_frame_no += info_frames
ShrinkBase(base, info_frames) == base + info_frames

\* Variant: the count still includes the metadata frames.
ShrinkCount_Kept(count, info_frames) == count

\* n_frames -= info_frames
ShrinkCount(count, info_frames) == count - info_frames

\* Variant: the map is left as the memory held it.
ZeroMap_Skipped(p) == p

\* for (i = 0; i < bitmap_size; ++i) bitmap[i] = 0
ZeroMap(p) == [p EXCEPT !.bitmap = [i \in 1..p.bitmap_size |-> 0]]

\* The object the constructor builds over memory that holds `garbage` in
\* every byte of the map before the constructor writes it.
NewPool(base, count, info, garbage) ==
    LET bitmap_size == Shr(Shl(count, 1) + 7, 3)
        p0 == [base_frame_no |-> base, n_frames |-> count, info_frame_no |-> info,
               bitmap_size |-> bitmap_size,
               bitmap |-> [i \in 1..bitmap_size |-> garbage],
               orig_base |-> base, orig_count |-> count]
        info_frames == needed_info_frames(count)
        p1 == IF info = 0
              THEN [MarkInfoFrames(p0, 0, info_frames) EXCEPT
                        !.base_frame_no = ShrinkBase(base, info_frames),
                        !.n_frames = ShrinkCount(count, info_frames)]
              ELSE p0
    IN  ZeroMap(p1)

\* Variant: a third pool passes the assertion.
RegistryHasRoom_OneMore(count) == count <= MAX_POOLS

\* assert(pool_count < 2)
RegistryHasRoom(count) == count < MAX_POOLS

(* ----------------------------- get_frames ----------------------------- *)

\* for (f = base_frame_no; ...
ScanFrom(p) == p.base_frame_no

\* Variant: the scan stops one frame short of the end of the range.
ScanEnd_Short(p) == p.base_frame_no + p.n_frames - 1

\* end = base_frame_no + n_frames
ScanEnd(p) == p.base_frame_no + p.n_frames

\* Variant: start follows the scan instead of staying on the run's first frame.
RunStart_Always(run, f, start) == f

\* if (run == 0) start = f
RunStart(run, f, start) == IF run = 0 THEN f ELSE start

\* Variant: a frame that is not Free does not end the run being counted.
RunOnBusy_Kept(run) == run

\* else run = 0
RunOnBusy(run) == 0

\* Variant: one frame more is marked Used (i <= n_req), where that frame
\* lies in the pool's range.
RECURSIVE MarkUsed_OneMore(_, _, _, _)
MarkUsed_OneMore(p, start, i, n_req) ==
    IF i < n_req \/ (i = n_req /\ (start + i) \in Usable(p))
    THEN MarkUsed_OneMore(set_state(p, start + i, Used), start, i + 1, n_req)
    ELSE p

\* for (i = 1; i < n_req; ++i) set_state(start + i, Used)
RECURSIVE MarkUsed(_, _, _, _)
MarkUsed(p, start, i, n_req) ==
    IF i < n_req
    THEN MarkUsed(set_state(p, start + i, Used), start, i + 1, n_req)
    ELSE p

\* Variant: the first frame of the run is marked Used like the rest.
MarkRun_NoHead(p, start, n_req) == MarkUsed(set_state(p, start, Used), start, 1, n_req)

\* set_state(start, HoS); then the rest Used
MarkRun(p, start, n_req) == MarkUsed(set_state(p, start, HoS), start, 1, n_req)

\* The scan loop: the result and the pool after it.
RECURSIVE ScanLoop(_, _, _, _, _)
ScanLoop(p, n_req, f, run, start) ==
    IF ~(f < ScanEnd(p))
    THEN [ret |-> 0, pool |-> p]
    ELSE IF get_state(p, f) = Free
         THEN LET start1 == RunStart(run, f, start)
                  run1 == run + 1
              IN  IF run1 = n_req
                  THEN [ret |-> start1, pool |-> MarkRun(p, start1, n_req)]
                  ELSE ScanLoop(p, n_req, f + 1, run1, start1)
         ELSE ScanLoop(p, n_req, f + 1, RunOnBusy(run), start)

get_frames(p, n_req) ==
    IF n_req = 0
    THEN [ret |-> 0, pool |-> p]
    ELSE ScanLoop(p, n_req, ScanFrom(p), 0, 0)

(* -------------------------- mark_inaccessible ------------------------- *)

RECURSIVE mark_inaccessible(_, _, _)
mark_inaccessible(p, f, end) ==
    IF f < end
    THEN mark_inaccessible(set_state(p, f, Used), f + 1, end)
    ELSE p

(* --------------------------- release_frames --------------------------- *)

\* Variant: the frame just past the range counts as the pool's (where its
\* slot still lies inside the map).
Owns_PastEnd(p, first) ==
    /\ first >= p.base_frame_no
    /\ first <= p.base_frame_no + p.n_frames
    /\ Shr(Shl(first - p.base_frame_no, 1), 3) < p.bitmap_size

\* first >= begin && first < end
Owns(p, first) ==
    first >= p.base_frame_no /\ first < p.base_frame_no + p.n_frames

\* Variant: any allocated frame is accepted as the head of a run.
IsHead_AnyAllocated(p, first) == get_state(p, first) # Free

\* p->get_state(first) != HoS is the error; this is its negation
IsHead(p, first) == get_state(p, first) = HoS

\* Variant: the walk does not stop at the head of the next run.
WalkContinues_OverHead(p, f, end) == f < end /\ get_state(p, f) # Free

\* Variant: only the head frame is freed.
WalkContinues_Never(p, f, end) == FALSE

\* f < end && p->get_state(f) == Used
WalkContinues(p, f, end) == f < end /\ get_state(p, f) = Used

RECURSIVE ReleaseWalk(_, _, _)
ReleaseWalk(p, f, end) ==
    IF WalkContinues(p, f, end)
    THEN ReleaseWalk(set_state(p, f, Free), f + 1, end)
    ELSE p

\* The registry scan from slot i: the registry and the console line after it.
RECURSIVE release_from(_, _, _, _)
release_from(reg, count, i, first) ==
    IF ~(i < count)
    THEN [pools |-> reg, msg |-> MSG_NO_POOL, owner |-> -1, freed |-> FALSE]
    ELSE LET p == reg[i]
             end == p.base_frame_no + p.n_frames
         IN  IF Owns(p, first)
             THEN IF ~IsHead(p, first)
                  THEN [pools |-> reg, msg |-> MSG_NOT_HOS, owner |-> i, freed |-> FALSE]
                  ELSE [pools |-> [reg EXCEPT ![i] =
                                      ReleaseWalk(set_state(p, first, Free), first + 1, end)],
                        msg |-> "", owner |-> i, freed |-> TRUE]
             ELSE release_from(reg, count, i + 1, first)

release_frames(reg, count, first) == release_from(reg, count, 0, first)

(* ------------------------------- state -------------------------------- *)

Registered == 0 .. (pool_count - 1)

NoCall ==
    [op |-> "none", pool |-> -1, arg |-> 0, arg2 |-> 0, arg3 |-> 0, ret |-> 0,
     msg |-> "", run_n |-> 0, clash |-> FALSE,
     pre |-> pools, pre_count |-> pool_count]

\* stage 1: get_frames(n) on pool returned r; stage 2: release_frames(r) came
\* next on that pool; stage 3: get_frames(n) came next on that pool.
NoRoundTrip == [stage |-> 0, pool |-> -1, n |-> 0, r |-> 0]

\* The length of the handed-out run among `runs` (0 when there is none).
RunLength(runs) ==
    IF runs = {} THEN 0
    ELSE LET r == CHOOSE x \in runs : \A y \in runs : y.n <= x.n IN r.n

Init ==
    /\ pools = [i \in 0 .. (MAX_POOLS - 1) |-> NullPool]
    /\ pool_count = 0
    /\ halted = FALSE
    /\ live = {}
    /\ last = [op |-> "none", pool |-> -1, arg |-> 0, arg2 |-> 0, arg3 |-> 0,
               ret |-> 0, msg |-> "", run_n |-> 0, clash |-> FALSE,
               pre |-> [i \in 0 .. (MAX_POOLS - 1) |-> NullPool], pre_count |-> 0]
    /\ rt = NoRoundTrip
    /\ marks = 0
    /\ inaccessible = {}

\* The frames of a handed-out run.
RunFrames(r) == r.head .. (r.head + r.n - 1)

\* Frames head .. head+n-1 of pool i hold a frame of a run that is handed out.
Clashes(i, head, n) ==
    \E r \in live : r.pool = i /\ RunFrames(r) \cap (head .. (head + n - 1)) # {}

(* What the callers of the pool guarantee (spec 3, 4.1, 7). *)

OrigRange(p) == p.orig_base .. (p.orig_base + p.orig_count - 1)

\* The frame the caller has reserved for the map of the pool built when
\* count pools exist, outside the frames any pool manages: one frame for
\* each pool.
ReservedInfoFrame(count) == MaxFrame + 1 + count

\* The frame ranges pools are built over: a pool of nine frames, whose map
\* takes two frames, and small pools that lie next to each other or apart.
PoolRanges ==
    { [base |-> 1, count |-> 2], [base |-> 1, count |-> 4],
      [base |-> 1, count |-> 9], [base |-> 5, count |-> 2],
      [base |-> 7, count |-> 2] }

ConstructArgs ==
    { a \in { [base |-> r.base, count |-> r.count, info |-> info] :
                 r \in PoolRanges, info \in {0, ReservedInfoFrame(pool_count)} } :
        /\ a.base + a.count - 1 <= MaxFrame
        /\ a.info # 0 => needed_info_frames(a.count) = 1
        /\ \A i \in Registered :
              (a.base .. (a.base + a.count - 1)) \cap OrigRange(pools[i]) = {} }

(* ------------------------------ actions ------------------------------- *)

\* new ContFramePool(base, count, info)
Construct ==
    /\ ~halted
    /\ \E a \in ConstructArgs, garbage \in {0, 255} :
          LET this == NewPool(a.base, a.count, a.info, garbage)
              call == [NoCall EXCEPT !.op = "construct", !.arg = a.base,
                                     !.arg2 = a.count, !.arg3 = a.info]
          IN  IF RegistryHasRoom(pool_count)
              THEN /\ pools' = [pools EXCEPT ![pool_count] = this]
                   /\ pool_count' = pool_count + 1
                   /\ halted' = FALSE
                   /\ last' = [call EXCEPT !.pool = pool_count, !.msg = MSG_INIT]
              ELSE /\ halted' = TRUE
                   /\ last' = call
                   /\ UNCHANGED <<pools, pool_count>>
    /\ rt' = NoRoundTrip
    /\ UNCHANGED <<live, marks, inaccessible>>

\* pools[i]->get_frames(n_req)
GetFrames ==
    /\ ~halted
    /\ \E i \in Registered, n_req \in 0 .. MaxReq :
          \E res \in {get_frames(pools[i], n_req)} :
              /\ pools' = [pools EXCEPT ![i] = res.pool]
              /\ live' = IF res.ret # 0
                         THEN live \cup {[pool |-> i, head |-> res.ret, n |-> n_req]}
                         ELSE live
              /\ last' = [NoCall EXCEPT !.op = "get_frames", !.pool = i,
                                        !.arg = n_req, !.ret = res.ret,
                                        !.clash = res.ret # 0 /\
                                                  Clashes(i, res.ret, n_req)]
              /\ rt' = IF rt.stage = 2 /\ rt.pool = i /\ rt.n = n_req
                       THEN [rt EXCEPT !.stage = 3]
                       ELSE IF res.ret # 0
                            THEN [stage |-> 1, pool |-> i, n |-> n_req, r |-> res.ret]
                            ELSE IF rt.stage \in {1, 2} /\ rt.pool # i
                                 THEN rt
                                 ELSE NoRoundTrip
    /\ UNCHANGED <<pool_count, halted, marks, inaccessible>>

\* ContFramePool::release_frames(first)
ReleaseFrames ==
    /\ ~halted
    /\ \E first \in 0 .. (MaxFrame + 1) :
          \E res \in {release_frames(pools, pool_count, first)} :
          LET runs == {r \in live : r.head = first}
          IN  /\ pools' = res.pools
              /\ live' = IF res.freed THEN live \ runs ELSE live
              /\ last' = [NoCall EXCEPT !.op = "release_frames", !.pool = res.owner,
                                        !.arg = first, !.msg = res.msg,
                                        !.run_n = RunLength(runs)]
              /\ inaccessible' =
                    { [m EXCEPT !.released =
                          m.released \/ (res.freed /\ res.owner = m.pool /\ first = m.base)] :
                      m \in inaccessible }
              /\ rt' = IF rt.stage = 1 /\ rt.r = first
                       THEN [rt EXCEPT !.stage = 2]
                       ELSE IF rt.stage \in {1, 2} /\ res.owner # rt.pool
                            THEN rt
                            ELSE NoRoundTrip
    /\ UNCHANGED <<pool_count, halted, marks>>

\* pools[i]->mark_inaccessible(base, count), on frames the pool manages
\* (any other frame number indexes outside the map).
MarkInaccessible ==
    /\ ~halted
    /\ marks < MaxMarks
    /\ marks' = marks + 1
    /\ \E i \in Registered :
          \E base \in 1 .. MaxFrame, count \in 1 .. MaxReq :
             /\ base \in Usable(pools[i])
             /\ (base + count - 1) \in Usable(pools[i])
             /\ pools' = [pools EXCEPT ![i] = mark_inaccessible(pools[i], base, base + count)]
             /\ last' = [NoCall EXCEPT !.op = "mark_inaccessible", !.pool = i,
                                       !.arg = base, !.arg2 = count]
             /\ inaccessible' = inaccessible \cup
                   {[pool |-> i, base |-> base, count |-> count, released |-> FALSE]}
    /\ rt' = NoRoundTrip
    /\ UNCHANGED <<pool_count, halted, live>>

Next == Construct \/ GetFrames \/ ReleaseFrames

Spec == Init /\ [][Next]_vars

\* ContFramePool::needed_info_frames(n), called by someone planning a pool
NeededInfoFrames ==
    /\ ~halted
    /\ \E n \in 0 .. MaxInfoArg :
          last' = [NoCall EXCEPT !.op = "needed_info_frames", !.arg = n,
                                 !.ret = needed_info_frames(n)]
    /\ UNCHANGED <<pools, pool_count, halted, live, rt, marks, inaccessible>>

\* Calls of needed_info_frames alone, before any pool exists.
SpecInfo == Init /\ [][NeededInfoFrames]_vars

\* The registry after two constructor calls: a pool over [1, 5) whose map
\* is supplied from outside, then a self-hosted pool over [5, 7) next to it.
MarkRegistry ==
    LET first == NewPool(1, 4, ReservedInfoFrame(0), 0)
        second == NewPool(5, 2, 0, 0)
    IN  [i \in 0 .. (MAX_POOLS - 1) |-> IF i = 0 THEN first ELSE second]

\* The state after those two constructor calls.
InitMark ==
    /\ pools = MarkRegistry
    /\ pool_count = 2
    /\ halted = FALSE
    /\ live = {}
    /\ last = [op |-> "construct", pool |-> 1, arg |-> 5, arg2 |-> 2, arg3 |-> 0,
               ret |-> 0, msg |-> MSG_INIT, run_n |-> 0, clash |-> FALSE,
               pre |-> [MarkRegistry EXCEPT ![1] = NullPool], pre_count |-> 1]
    /\ rt = NoRoundTrip
    /\ marks = 0
    /\ inaccessible = {}

NextMark == GetFrames \/ ReleaseFrames \/ MarkInaccessible

\* The calls on those two pools, mark_inaccessible among them.
SpecMark == InitMark /\ [][NextMark]_vars

\* The registry after one constructor call: a self-hosted pool over [1, 10),
\* whose map takes three bytes and the pool's first two frames.
MapRegistry ==
    [i \in 0 .. (MAX_POOLS - 1) |->
        IF i = 0 THEN NewPool(1, 9, 0, 0) ELSE NullPool]

\* The state after that constructor call.
InitMap ==
    /\ pools = MapRegistry
    /\ pool_count = 1
    /\ halted = FALSE
    /\ live = {}
    /\ last = [op |-> "construct", pool |-> 0, arg |-> 1, arg2 |-> 9, arg3 |-> 0,
               ret |-> 0, msg |-> MSG_INIT, run_n |-> 0, clash |-> FALSE,
               pre |-> [i \in 0 .. (MAX_POOLS - 1) |-> NullPool],
               pre_count |-> 0]
    /\ rt = NoRoundTrip
    /\ marks = 0
    /\ inaccessible = {}

\* set_state(frame_no, state) on that pool, for a frame of its usable range.
SetState ==
    /\ ~halted
    /\ \E f \in Usable(pools[0]) : \E s \in {Free, Used, HoS} :
          /\ pools' = [pools EXCEPT ![0] = set_state(pools[0], f, s)]
          /\ last' = [NoCall EXCEPT !.op = "set_state", !.pool = 0,
                                    !.arg = f, !.arg2 = s]
    /\ UNCHANGED <<pool_count, halted, live, rt, marks, inaccessible>>

\* The map accessors alone, on one pool.
SpecMap == InitMap /\ [][SetState]_vars

(* ------------------------- vocabulary of claims ----------------------- *)

\* Frames s .. s+n-1 lie in the usable range of p and are all Free.
FreeRunAt(p, s, n) ==
    \A j \in 0 .. (n - 1) : (s + j) \in Usable(p) /\ get_state(p, s + j) = Free

\* The starts of the runs of n Free frames of p.
FreeRunStarts(p, n) == {s \in Usable(p) : FreeRunAt(p, s, n)}

\* The length of the longest run of Free frames of p.
LongestFreeRun(p) ==
    LET lens == {n \in 0 .. p.n_frames : n = 0 \/ FreeRunStarts(p, n) # {}}
    IN  CHOOSE n \in lens : \A m \in lens : m <= n

Min(S) == CHOOSE x \in S : \A y \in S : x <= y

\* The registered pools of registry reg (count of them) whose range holds f.
OwnersOf(reg, count, f) == {i \in 0 .. (count - 1) : f \in Usable(reg[i])}

\* Every frame of every registered pool has the state it had before the
\* last call, except the frames of `touched` in pool `in`.
FramesKeptExcept(in, touched) ==
    /\ pool_count = last.pre_count
    /\ \A i \in Registered :
          /\ pools[i].base_frame_no = last.pre[i].base_frame_no
          /\ pools[i].n_frames = last.pre[i].n_frames
          /\ \A f \in Usable(pools[i]) :
                (i # in \/ f \notin touched)
                   => get_state(pools[i], f) = get_state(last.pre[i], f)

NothingChanged == pools = last.pre /\ pool_count = last.pre_count

(* ------------------------------- claims ------------------------------- *)

\* C1: run integrity. In every state reached by get_frames and
\* release_frames calls, each run handed out and not yet released lies in
\* its pool's usable range, has HeadOfSequence on its lowest frame and Used
\* on all its other frames (so exactly one head, and no Free frame inside).
C1_RunIntegrity ==
    \A r \in live :
       LET p == pools[r.pool]
       IN  /\ r.n >= 1
           /\ \A j \in 0 .. (r.n - 1) :
                 /\ (r.head + j) \in Usable(p)
                 /\ get_state(p, r.head + j) = (IF j = 0 THEN HoS ELSE Used)

\* C1 witness: a run of two or more frames is still handed out right after
\* the run directly below it was released.
C1_Witness ==
    /\ last.op = "release_frames"
    /\ last.run_n >= 1
    /\ \E r \in live :
          r.pool = last.pool /\ r.n >= 2 /\ r.head = last.arg + last.run_n

\* C2: a get_frames(n) call that returns r # 0 has n >= 1, the frames
\* r .. r+n-1 lie in the usable range, all were Free before the call, and
\* after it r is HeadOfSequence and r+1 .. r+n-1 are Used.
C2_GetFramesRun ==
    (last.op = "get_frames" /\ last.ret # 0) =>
       LET before == last.pre[last.pool]
           after == pools[last.pool]
       IN  /\ last.arg >= 1
           /\ \A j \in 0 .. (last.arg - 1) :
                 /\ (last.ret + j) \in Usable(after)
                 /\ get_state(before, last.ret + j) = Free
                 /\ get_state(after, last.ret + j) = (IF j = 0 THEN HoS ELSE Used)

\* C2 witness: get_frames(n) with n >= 2 has returned a run that does not
\* start at the pool's base.
C2_Witness ==
    /\ last.op = "get_frames"
    /\ last.ret # 0
    /\ last.arg >= 2
    /\ last.ret > pools[last.pool].base_frame_no

\* C3: first fit. If before a get_frames(n) call, n >= 1, some run of n
\* Free frames exists in the usable range, the call returns the smallest
\* frame s whose frames s .. s+n-1 were all Free.
C3_FirstFit ==
    (/\ last.op = "get_frames"
     /\ last.arg >= 1
     /\ FreeRunStarts(last.pre[last.pool], last.arg) # {})
       => last.ret = Min(FreeRunStarts(last.pre[last.pool], last.arg))

\* C3 witness: get_frames(n) returned the start of a Free run longer than n
\* although a Free run of exactly n frames lay higher in the pool.
C3_Witness ==
    /\ last.op = "get_frames"
    /\ last.ret # 0
    /\ LET before == last.pre[last.pool]
           n == last.arg
       IN  /\ FreeRunAt(before, last.ret, n + 1)
           /\ \E s \in Usable(before) :
                 /\ s > last.ret + n
                 /\ FreeRunAt(before, s, n)
                 /\ ~FreeRunAt(before, s, n + 1)
                 /\ ~FreeRunAt(before, s - 1, n + 1)

\* C4: capacity boundary. get_frames(n) returns 0 exactly when n = 0 or the
\* longest run of Free frames in the usable range is shorter than n.
C4_Capacity ==
    (last.op = "get_frames") =>
       (last.ret = 0 <=>
           (last.arg = 0 \/ LongestFreeRun(last.pre[last.pool]) < last.arg))

\* C4 witness: get_frames(n), n >= 2, has failed on a pool whose longest
\* Free run was n-1 frames.
C4_Witness ==
    /\ last.op = "get_frames"
    /\ last.ret = 0
    /\ last.arg >= 2
    /\ LongestFreeRun(last.pre[last.pool]) = last.arg - 1

\* C5: release reconstructs the run. release_frames(h) on the head h of a
\* run of n frames that is handed out and not yet released sets exactly the
\* frames h .. h+n-1 to Free and leaves every other frame of every
\* registered pool, every range and the registry as they were.
C5_ReleaseExact ==
    (last.op = "release_frames" /\ last.run_n >= 1) =>
       /\ last.pool \in Registered
       /\ \A j \in 0 .. (last.run_n - 1) :
             /\ (last.arg + j) \in Usable(pools[last.pool])
             /\ get_state(pools[last.pool], last.arg + j) = Free
       /\ FramesKeptExcept(last.pool, last.arg .. (last.arg + last.run_n - 1))

\* C5 witness: a run of two or more frames was released while the frame
\* right after it was the head of another run, which is still handed out.
C5_Witness ==
    /\ last.op = "release_frames"
    /\ last.run_n >= 2
    /\ \E r \in live : r.pool = last.pool /\ r.head = last.arg + last.run_n
    /\ get_state(pools[last.pool], last.arg + last.run_n) = HoS

\* C6: round trip. When get_frames(n) on a pool returned r # 0, then
\* release_frames(r) and then get_frames(n) on the same pool followed with
\* no other call on that pool in between, the second get_frames returned r.
C6_RoundTrip == (rt.stage = 3) => (last.op = "get_frames" /\ last.ret = rt.r)

\* C6 witness: a round trip of a run of two or more frames has completed in
\* a pool that holds another handed-out run below it.
C6_Witness ==
    /\ rt.stage = 3
    /\ rt.n >= 2
    /\ \E r \in live : r.pool = rt.pool /\ r.head < rt.r

\* C7: release_frames(f) on a frame f inside a registered pool's range
\* whose state is not HeadOfSequence prints the not-head error and changes
\* nothing: every pool and the registry are as before the call.
C7_NotHead ==
    (/\ last.op = "release_frames"
     /\ \E i \in OwnersOf(last.pre, last.pre_count, last.arg) :
           get_state(last.pre[i], last.arg) # HoS)
       => (NothingChanged /\ last.msg = MSG_NOT_HOS)

\* C7 witness: release_frames was called on a Used frame inside a run that
\* is handed out.
C7_Witness ==
    /\ last.op = "release_frames"
    /\ last.msg = MSG_NOT_HOS
    /\ last.pool \in Registered
    /\ get_state(pools[last.pool], last.arg) = Used
    /\ \E r \in live : r.pool = last.pool /\ r.head < last.arg /\ last.arg < r.head + r.n

\* C8: release_frames(f) on a frame f outside the range of every registered
\* pool (with no pool registered, and for f = 0, too) prints the unknown
\* frame error and changes no pool and no registry entry.
C8_UnknownFrame ==
    (/\ last.op = "release_frames"
     /\ OwnersOf(last.pre, last.pre_count, last.arg) = {})
       => (NothingChanged /\ last.msg = MSG_NO_POOL)

\* C8 witness: with two pools registered and runs handed out,
\* release_frames was called on a frame between 1 and MaxFrame that no pool
\* manages.
C8_Witness ==
    /\ last.op = "release_frames"
    /\ last.msg = MSG_NO_POOL
    /\ pool_count = MAX_POOLS
    /\ live # {}
    /\ last.arg \in 1 .. MaxFrame

\* C9: metadata self-containment. A run returned by get_frames of a pool
\* built with metadata_frame_no = 0 over [B, B+N) holds no frame of
\* [B, B+k), k = needed_info_frames(N).
C9_MetadataNeverReturned ==
    (/\ last.op = "get_frames"
     /\ last.ret # 0
     /\ pools[last.pool].info_frame_no = 0)
       => LET B == pools[last.pool].orig_base
              k == needed_info_frames(pools[last.pool].orig_count)
          IN  \A j \in 0 .. (last.arg - 1) :
                 ~(B <= last.ret + j /\ last.ret + j < B + k)

\* C9 witness: get_frames of a self-hosted pool with two metadata frames
\* returned the first frame after them.
C9_Witness ==
    /\ last.op = "get_frames"
    /\ last.ret # 0
    /\ pools[last.pool].info_frame_no = 0
    /\ needed_info_frames(pools[last.pool].orig_count) = 2
    /\ last.ret = pools[last.pool].orig_base + 2

\* C10: mark_inaccessible(b, n), n >= 1, leaves frame b HeadOfSequence and
\* frames b+1 .. b+n-1 Used, whatever they were, and changes no other frame.
C10_MarkInaccessible ==
    (last.op = "mark_inaccessible") =>
       /\ get_state(pools[last.pool], last.arg) = HoS
       /\ \A j \in 1 .. (last.arg2 - 1) :
             get_state(pools[last.pool], last.arg + j) = Used
       /\ FramesKeptExcept(last.pool, last.arg .. (last.arg + last.arg2 - 1))

\* C11: data-model invariant over all operations. In every state reached by
\* construction and get_frames, mark_inaccessible and release_frames calls,
\* every Used frame comes right after a HeadOfSequence or Used frame of the
\* same pool, so walking back from it through Used frames ends on a head.
C11_UsedFollowsHead ==
    \A i \in Registered :
       \A f \in Usable(pools[i]) :
          get_state(pools[i], f) = Used
             => /\ (f - 1) \in Usable(pools[i])
                /\ get_state(pools[i], f - 1) \in {HoS, Used}
                /\ \E h \in Usable(pools[i]) :
                      /\ h < f
                      /\ get_state(pools[i], h) = HoS
                      /\ \A g \in (h + 1) .. f : get_state(pools[i], g) = Used

\* The state the map holds in slot k (two bits per slot, four slots per
\* byte, slot 0 in the low bits of the first byte).
SlotState(p, k) == (p.bitmap[(k \div 4) + 1] \div (4 ^ (k % 4))) % 4

\* C12: self-hosted metadata marking. For every registered pool built with
\* metadata_frame_no = 0 over [B, B+N), k = needed_info_frames(N), the map
\* (sized and indexed for the range the constructor was given) records
\* frame B as HeadOfSequence and frames B+1 .. B+k-1 as Used, after
\* construction and after every later call.
C12_MetadataMarked ==
    \A i \in Registered :
       pools[i].info_frame_no = 0
          => LET k == needed_info_frames(pools[i].orig_count)
             IN  \A j \in 0 .. (k - 1) :
                    SlotState(pools[i], j) = (IF j = 0 THEN HoS ELSE Used)

\* C13: initial state of a pool. After ContFramePool(B, N, info) has
\* registered a pool, its usable range is [B+k, B+N) with
\* k = needed_info_frames(N) when info = 0 and [B, B+N) when info # 0, and
\* every frame of the usable range is Free.
C13_InitialState ==
    (last.op = "construct" /\ ~halted) =>
       LET p == pools[last.pool]
           k == needed_info_frames(last.arg2)
       IN  /\ p.info_frame_no = last.arg3
           /\ IF last.arg3 = 0
              THEN p.base_frame_no = last.arg + k /\ p.n_frames = last.arg2 - k
              ELSE p.base_frame_no = last.arg /\ p.n_frames = last.arg2
           /\ \A f \in Usable(p) : get_state(p, f) = Free

\* C13 witness: a self-hosted pool whose map takes two frames has just been
\* built.
C13_Witness ==
    /\ last.op = "construct"
    /\ ~halted
    /\ last.arg3 = 0
    /\ needed_info_frames(last.arg2) = 2
    /\ pools[last.pool].n_frames = last.arg2 - 2

\* C14: registry capacity. The registry never holds more than MAX_POOLS
\* pools; a constructor call made with fewer than MAX_POOLS pools registered
\* appends the new pool in the next slot and leaves the other slots alone;
\* a constructor call made with MAX_POOLS pools registered fails the
\* assertion and registers nothing.
C14_RegistryCapacity ==
    /\ pool_count <= MAX_POOLS
    /\ (last.op = "construct") =>
          IF last.pre_count < MAX_POOLS
          THEN /\ ~halted
               /\ pool_count = last.pre_count + 1
               /\ last.pool = last.pre_count
               /\ pools[last.pool].orig_base = last.arg
               /\ pools[last.pool].orig_count = last.arg2
               /\ \A i \in 0 .. (MAX_POOLS - 1) :
                     i # last.pool => pools[i] = last.pre[i]
          ELSE halted /\ NothingChanged
    /\ halted => (last.op = "construct" /\ last.pre_count = MAX_POOLS)

\* C14 witness: a third constructor call has failed the assertion.
C14_Witness ==
    /\ halted
    /\ last.op = "construct"
    /\ pool_count = MAX_POOLS

CeilDiv(a, b) == CHOOSE q \in 0 .. a : q * b >= a /\ (q = 0 \/ (q - 1) * b < a)

\* C16: needed_info_frames(n) = ceil(ceil(2n / 8) / FRAME_SIZE) for every n
\* in 0..MaxInfoArg: 0 for n = 0, 1 for 1 <= n <= 4 * FRAME_SIZE, and in
\* general the least q with n <= q * 4 * FRAME_SIZE.
C16_NeededInfoFrames ==
    (last.op = "needed_info_frames") =>
       /\ last.ret = CeilDiv(CeilDiv(2 * last.arg, 8), FRAME_SIZE)
       /\ last.arg = 0 => last.ret = 0
       /\ (1 <= last.arg /\ last.arg <= 4 * FRAME_SIZE) => last.ret = 1
       /\ last.ret = CeilDiv(last.arg, 4 * FRAME_SIZE)

\* C16 witness: needed_info_frames was called with one frame more than one
\* metadata frame describes, and returned 2.
C16_Witness ==
    /\ last.op = "needed_info_frames"
    /\ last.arg = 4 * FRAME_SIZE + 1
    /\ last.ret = 2

\* The frames of a range given to mark_inaccessible.
FramesOf(m) == m.base .. (m.base + m.count - 1)

\* C17: frames carved out with mark_inaccessible stay reserved. As long as
\* release_frames has not been called on b itself, after
\* mark_inaccessible(b, n) no frame of b .. b+n-1 is Free and no run
\* returned by a later get_frames holds one of them.
C17_InaccessibleStays ==
    \A m \in inaccessible :
       ~m.released =>
          /\ \A f \in FramesOf(m) : get_state(pools[m.pool], f) # Free
          /\ (last.op = "get_frames" /\ last.ret # 0 /\ last.pool = m.pool)
                => FramesOf(m) \cap (last.ret .. (last.ret + last.arg - 1)) = {}

\* C18: no double allocation. The frame sets of the runs handed out by
\* get_frames and not yet released are pairwise disjoint, and no get_frames
\* call returns a run that holds a frame of a run still handed out.
C18_NoDoubleAllocation ==
    /\ \A r1 \in live : \A r2 \in live :
          r1 # r2 => RunFrames(r1) \cap RunFrames(r2) = {}
    /\ (last.op = "get_frames") => ~last.clash

\* C18 witness: with two runs handed out in a pool, get_frames has returned
\* a run that lies below one of them and above the other (a released hole
\* was reused).
C18_Witness ==
    /\ last.op = "get_frames"
    /\ last.ret # 0
    /\ \E r \in live : r.pool = last.pool /\ r.head > last.ret
    /\ \E r \in live : r.pool = last.pool /\ r.head < last.ret

\* C19: frame effect of get_frames. A get_frames call that returns 0 leaves
\* every pool and the registry exactly as they were; a get_frames(n) call
\* that returns r # 0 changes the state of no frame outside r .. r+n-1 and
\* changes no pool's base or count, nor the registry.
C19_GetFramesEffect ==
    (last.op = "get_frames") =>
       IF last.ret = 0
       THEN NothingChanged
       ELSE /\ FramesKeptExcept(last.pool, last.ret .. (last.ret + last.arg - 1))
            /\ \A i \in 0 .. (MAX_POOLS - 1) :
                  i # last.pool => pools[i] = last.pre[i]
            /\ pools[last.pool].info_frame_no = last.pre[last.pool].info_frame_no
            /\ pools[last.pool].bitmap_size = last.pre[last.pool].bitmap_size

\* C19 witness: get_frames has returned a run of two or more frames whose
\* next frame is Free, in one of two registered pools, while a run of the
\* other pool is handed out.
C19_Witness ==
    /\ last.op = "get_frames"
    /\ last.ret # 0
    /\ last.arg >= 2
    /\ (last.ret + last.arg) \in Usable(pools[last.pool])
    /\ get_state(pools[last.pool], last.ret + last.arg) = Free
    /\ pool_count = MAX_POOLS
    /\ \E r \in live : r.pool # last.pool

\* C20: packed 2-bit map accessors. For any two frames f # g of a pool's
\* usable range and any state s of Free, Used, HeadOfSequence: get_state(f)
\* right after set_state(f, s) returns s, set_state(f, s) leaves
\* get_state(g) unchanged, also when f and g share a byte of the map, and
\* the state is held in slot f - base of the map (four slots per byte, slot
\* 0 being the pool's base frame).
C20_PackedAccessors ==
    (last.op = "set_state") =>
       LET p == pools[last.pool]
           q == last.pre[last.pool]
       IN  /\ get_state(p, last.arg) = last.arg2
           /\ SlotState(p, last.arg - p.base_frame_no) = last.arg2
           /\ \A g \in Usable(p) \ {last.arg} :
                 /\ get_state(p, g) = get_state(q, g)
                 /\ SlotState(p, g - p.base_frame_no) = get_state(q, g)

\* C20 witness: set_state has overwritten a frame that held another state
\* which was not Free, while a frame of the same byte of the map holds a
\* state that is not Free.
C20_Witness ==
    /\ last.op = "set_state"
    /\ get_state(last.pre[last.pool], last.arg) \notin {Free, last.arg2}
    /\ \E g \in Usable(pools[last.pool]) \ {last.arg} :
          /\ ByteIdx(pools[last.pool], g) = ByteIdx(pools[last.pool], last.arg)
          /\ get_state(pools[last.pool], g) # Free

====
